---------------------------- MODULE Spec2Model ----------------------------
(***************************************************************************)
(* Model of robotica/ler-serial.js: a bridge that reads newline-delimited  *)
(* JSON from a serial port and POSTs every record, enriched, to an HTTP    *)
(* endpoint.  The state is the two module globals (port, parser), the     *)
(* serial port instances created so far, the pending timers and open      *)
(* attempts of the reconnect machinery, the deliveries in flight, and the  *)
(* console output.  Every action is one event-loop callback of the script, *)
(* run from its start to its next await.  Spec is the whole script;        *)
(* EnrichSpec runs the enrichment of the data handler and DetectSpec the   *)
(* path selection of openPort on inputs of their own.                      *)
(***************************************************************************)
EXTENDS Integers, Sequences, FiniteSets, TLC

(***************************************************************************)
(* Bounds of the model.                                                    *)
(***************************************************************************)
MaxPorts == 2          \* port instances alive at the same time
MaxOpenFails == 2      \* failed open attempts before the first successful open
MaxLines == 2          \* lines handed to the data handler in one run
MaxRetryBudget == 3    \* largest MAX_POST_RETRIES a run is configured with
MaxListing == 2        \* port infos SerialPort.list() reports at once

(***************************************************************************)
(* CONFIG (lines 20-28).  MAX_POST_RETRIES is a variable fixed by Init so  *)
(* that every retry budget 0..MaxRetryBudget is covered; the source sets 3.*)
(***************************************************************************)
CONNECT_RETRY_MS == 3000
POST_TIMEOUT_MS == 5000
SOURCE_TAG == "arduino-serial"

VARIABLES
  MAX_POST_RETRIES, \* CONFIG.MAX_POST_RETRIES
  SERIAL_PORT,      \* CONFIG.SERIAL_PORT, the device selector
  listing,          \* what SerialPort.list() comes back with when it is called
  path,             \* the path openPort has chosen (line 56), empty before it has
  listed,           \* calls of SerialPort.list() made so far
  port,             \* global `port`: 0 is null, else the id of a port instance
  parser,           \* global `parser`: 0 is null, else the port it is piped from
  wired,            \* port instance -> calls of wireHandlers made on it and its parser
  ports,            \* port instance -> "none" | "open" | "closing" | "closed"
  opening,          \* ensureOpen loops awaiting openPort()
  retrySleeps,      \* ensureOpen loops in sleep(CONNECT_RETRY_MS) (line 91)
  closeSleeps,      \* 'close' handlers in sleep(CONNECT_RETRY_MS) (line 99)
  proc,             \* "loaded" | "running" | "sigint" | "exited"
  awaited,          \* port whose close the SIGINT handler awaits (line 162), else 0
  exitCode,         \* argument of process.exit, -1 while the process lives
  deliveries,       \* one entry per call of postWithRetries made by the data handler
  nLines,           \* lines handed to the data handler so far
  log,              \* console output, counted per message kind
  unhandled,        \* rejections that reached process.on("unhandledRejection")
  connLog,          \* connection states observed until the first successful open
  openFails,        \* failed open attempts until the first successful open
  retryDelays,      \* ms slept in ensureOpen (line 91) until the first successful open
  everOpened        \* a port has been opened

connVars == <<port, parser, wired, ports, opening, retrySleeps, closeSleeps>>
detectVars == <<SERIAL_PORT, listing, path, listed>>
histVars == <<connLog, openFails, retryDelays, everOpened>>
pipeVars == <<deliveries, nLines, log, unhandled>>
vars == <<MAX_POST_RETRIES, SERIAL_PORT, listing, path, listed,
          port, parser, wired, ports, opening, retrySleeps, closeSleeps,
          proc, awaited, exitCode, deliveries, nLines, log, unhandled,
          connLog, openFails, retryDelays, everOpened>>

PortIds == 1..MaxPorts

(***************************************************************************)
(* Text.  A line is a sequence of tokens; a token is a run of characters   *)
(* that trim() and JSON.parse treat as a unit.                             *)
(***************************************************************************)
Ws(c) == [t |-> "ws", v |-> c]
Pn(c) == [t |-> "punct", v |-> c]
Str(s) == [t |-> "string", v |-> s]
Num(s) == [t |-> "number", v |-> s]
Lit(s) == [t |-> "literal", v |-> s]
Word(s) == [t |-> "word", v |-> s]

\* the lines the device sends in the model
LineBlank == <<Ws(" "), Ws("\r")>>
LineNotJson == <<Word("not"), Ws(" "), Word("json")>>
LineCut == <<Str("temp"), Pn(":"), Num("21.5"), Pn("}"), Ws("\r")>>
LineTemp == <<Pn("{"), Str("temp"), Pn(":"), Num("21.5"), Pn("}"), Ws("\r")>>
LineNumber == <<Num("42"), Ws("\r")>>
Lines == {LineBlank, LineNotJson, LineCut, LineTemp, LineNumber}

\* lines that hold a record, some with fields named like the system fields; the
\* enrichment is run on them in EnrichSpec
LineEmptyObject == <<Pn("{"), Pn("}"), Ws("\r")>>
LineTwo == <<Pn("{"), Str("temp"), Pn(":"), Num("21.5"), Pn(","),
             Str("hum"), Pn(":"), Num("40"), Pn("}"), Ws("\r")>>
LineOwnSource == <<Pn("{"), Str("_source"), Pn(":"), Str("x"), Pn(","),
                   Str("temp"), Pn(":"), Num("21.5"), Pn("}"), Ws("\r")>>
LineOwnStamp == <<Pn("{"), Str("_ingested_at"), Pn(":"), Str("x"), Pn("}"), Ws("\r")>>
LineOwnBoth == <<Pn("{"), Str("_ingested_at"), Pn(":"), Str("x"), Pn(","),
                 Str("_source"), Pn(":"), Lit("null"), Pn(","),
                 Str("temp"), Pn(":"), Num("21.5"), Pn("}"), Ws("\r")>>
RecordLines == {LineTemp, LineEmptyObject, LineTwo, LineOwnSource, LineOwnStamp, LineOwnBoth}

\* Date.prototype.toISOString (line 125) of the time t ms after the epoch, for
\* the clock readings of the model
ISOString(t) ==
  <<"1970-01-01T00:00:00.001Z", "1970-01-01T00:00:00.002Z", "1970-01-01T00:00:00.003Z",
    "1970-01-01T00:00:00.004Z">>[t]

\* the clock readings ISOString covers
Clock == 1..4

RECURSIVE TrimStart(_)
TrimStart(s) == IF s # <<>> /\ Head(s).t = "ws" THEN TrimStart(Tail(s)) ELSE s

RECURSIVE TrimEnd(_)
TrimEnd(s) ==
  IF s # <<>> /\ s[Len(s)].t = "ws" THEN TrimEnd(SubSeq(s, 1, Len(s) - 1)) ELSE s

\* String.prototype.trim (line 111)
Trim(s) == TrimEnd(TrimStart(s))

IsScalar(tok) == tok.t \in {"string", "number", "literal"}

\* the members of an object text: string : scalar (, string : scalar)*
RECURSIVE Members(_)
Members(s) ==
  IF Len(s) = 3
    THEN IF s[1].t = "string" /\ s[2] = Pn(":") /\ IsScalar(s[3])
           THEN [ok |-> TRUE, pairs |-> <<<<s[1].v, s[3]>>>>]
           ELSE [ok |-> FALSE, pairs |-> <<>>]
  ELSE IF Len(s) > 4 /\ s[1].t = "string" /\ s[2] = Pn(":") /\ IsScalar(s[3])
          /\ s[4] = Pn(",")
    THEN LET rest == Members(SubSeq(s, 5, Len(s)))
         IN [ok |-> rest.ok, pairs |-> <<<<s[1].v, s[3]>>>> \o rest.pairs]
  ELSE [ok |-> FALSE, pairs |-> <<>>]

\* the object a member list denotes: a repeated key keeps its last value
ObjectOf(pairs) ==
  [k \in {pairs[i][1] : i \in DOMAIN pairs} |->
     LET i == CHOOSE i \in DOMAIN pairs :
                /\ pairs[i][1] = k
                /\ \A j \in DOMAIN pairs : pairs[j][1] = k => j <= i
     IN pairs[i][2]]

EmptyObject == [k \in {} |-> Lit("null")]

(***************************************************************************)
(* JSON.parse (line 116) on the values the model's lines can hold: a       *)
(* scalar, or an object of scalars.  Whitespace between tokens is skipped; *)
(* anything else throws (ok = FALSE).                                      *)
(***************************************************************************)
JSONParse(text) ==
  LET s == SelectSeq(text, LAMBDA tok : tok.t # "ws")
      Fail == [ok |-> FALSE, kind |-> "error", value |-> EmptyObject, scalar |-> ""]
  IN IF Len(s) = 1 /\ IsScalar(s[1])
       THEN [ok |-> TRUE, kind |-> s[1].t, value |-> EmptyObject, scalar |-> s[1].v]
     ELSE IF Len(s) = 2 /\ s = <<Pn("{"), Pn("}")>>
       THEN [ok |-> TRUE, kind |-> "object", value |-> EmptyObject, scalar |-> ""]
     ELSE IF Len(s) > 2 /\ s[1] = Pn("{") /\ s[Len(s)] = Pn("}")
       THEN LET m == Members(SubSeq(s, 2, Len(s) - 1))
            IN IF m.ok
                 THEN [ok |-> TRUE, kind |-> "object", value |-> ObjectOf(m.pairs),
                       scalar |-> ""]
                 ELSE Fail
     ELSE Fail

(***************************************************************************)
(* The enriched object of lines 123-127: the payload's own enumerable      *)
(* properties (none for a number, null or a boolean, the indexed           *)
(* characters for a string), then the two system fields, which overwrite   *)
(* payload fields of the same name.                                        *)
(***************************************************************************)
Chars(s) == IF s = "x" THEN <<"x">> ELSE IF s = "temp" THEN <<"t", "e", "m", "p">> ELSE <<>>
IndexKey == <<"0", "1", "2", "3">>

Spread(payload) ==
  IF payload.kind = "object" THEN payload.value
  ELSE IF payload.kind = "string"
    THEN LET cs == Chars(payload.scalar)
         IN [k \in {IndexKey[i] : i \in DOMAIN cs} |->
               Str(cs[CHOOSE i \in DOMAIN cs : IndexKey[i] = k])]
  ELSE EmptyObject

\* faulty variant: the payload's fields are left out
EnrichReservedOnly(payload, t) ==
  [k \in {"_ingested_at", "_source"} |->
     IF k = "_ingested_at" THEN Str(ISOString(t)) ELSE Str(SOURCE_TAG)]

\* faulty variant: the payload is spread after the system fields, so its own
\* fields of these names win
EnrichPayloadWins(payload, t) ==
  LET own == Spread(payload)
  IN [k \in DOMAIN own \cup {"_ingested_at", "_source"} |->
        IF k \in DOMAIN own THEN own[k]
        ELSE IF k = "_ingested_at" THEN Str(ISOString(t))
        ELSE Str(SOURCE_TAG)]

\* faulty variant: the source tag is left out
EnrichNoSource(payload, t) ==
  LET own == Spread(payload)
  IN [k \in DOMAIN own \cup {"_ingested_at"} |->
        IF k = "_ingested_at" THEN Str(ISOString(t)) ELSE own[k]]

Enrich(payload, t) ==
  LET own == Spread(payload)
  IN [k \in DOMAIN own \cup {"_ingested_at", "_source"} |->
        IF k = "_ingested_at" THEN Str(ISOString(t))
        ELSE IF k = "_source" THEN Str(SOURCE_TAG)
        ELSE own[k]]

\* faulty variant: the upper limit is included
ValidateStatusUpTo300(s) == s >= 200 /\ s <= 300

\* validateStatus (line 143)
ValidateStatus(s) == s >= 200 /\ s < 300

\* what one axios.post can come back with: a response with a status code, or no
\* response and an error code (connection refused; ECONNABORTED is the timeout)
Status(n) == [status |-> n, code |-> ""]
Failure(c) == [status |-> 0, code |-> c]
Responses == {Status(199), Status(200), Status(299), Status(300), Status(500),
              Failure("ECONNREFUSED"), Failure("ECONNABORTED")}

\* axios.post resolves (line 140) iff a response arrived and validateStatus accepts it
PostResolves(r) == r.code = "" /\ ValidateStatus(r.status)

\* faulty variant: the attempt index counted from 0
BackoffWaitFromZero(retriesLeft) ==
  POST_TIMEOUT_MS * (MAX_POST_RETRIES - retriesLeft)

\* the wait before the retry made with retriesLeft retries left (line 147)
BackoffWait(retriesLeft) ==
  POST_TIMEOUT_MS * (MAX_POST_RETRIES - retriesLeft + 1)

(***************************************************************************)
(* Device discovery.  A device path or name is the sequence of its         *)
(* characters, so that the two patterns of autoDetectPort are matched      *)
(* character by character.                                                 *)
(***************************************************************************)
Auto == <<"a", "u", "t", "o">>
Undefined == <<"undefined">>   \* a property the port info does not have
Com3 == <<"C", "O", "M", "3">>

UpperCase == <<"A", "B", "C", "D", "E", "F", "G", "H", "I", "J", "K", "L", "M",
               "N", "O", "P", "Q", "R", "S", "T", "U", "V", "W", "X", "Y", "Z">>
LowerCase == <<"a", "b", "c", "d", "e", "f", "g", "h", "i", "j", "k", "l", "m",
               "n", "o", "p", "q", "r", "s", "t", "u", "v", "w", "x", "y", "z">>
Folding ==
  [c \in {UpperCase[i] : i \in DOMAIN UpperCase} |->
     LowerCase[CHOOSE i \in DOMAIN UpperCase : UpperCase[i] = c]]
Lower(c) == IF c \in DOMAIN Folding THEN Folding[c] ELSE c
ToLower(s) == [i \in DOMAIN s |-> Lower(s[i])]
Contains(s, pat) ==
  \E i \in 1..(Len(s) - Len(pat) + 1) : SubSeq(s, i, i + Len(pat) - 1) = pat
IsDigit(c) == c \in {"0", "1", "2", "3", "4", "5", "6", "7", "8", "9"}

\* /arduino|wch|usb/i .test(text) (line 42)
LooksLikeArduino(text) ==
  LET folded == ToLower(text)
  IN \E pat \in {<<"a", "r", "d", "u", "i", "n", "o">>, <<"w", "c", "h">>, <<"u", "s", "b">>} :
       Contains(folded, pat)

\* /^COM\d+$/i .test(text) (line 46)
IsComName(text) ==
  /\ Len(text) >= 4
  /\ ToLower(SubSeq(text, 1, 3)) = <<"c", "o", "m">>
  /\ \A i \in 4..Len(text) : IsDigit(text[i])

\* s || "" (lines 42, 46)
OrEmpty(s) == IF s = Undefined \/ s = <<>> THEN <<>> ELSE s

\* `${p.manufacturer || ""} ${p.friendlyName || ""} ${p.path || ""}` (line 42)
Describe(p) ==
  OrEmpty(p.manufacturer) \o <<" ">> \o OrEmpty(p.friendlyName) \o <<" ">> \o OrEmpty(p.path)

PortInfo(manufacturer, friendlyName, devicePath) ==
  [manufacturer |-> manufacturer, friendlyName |-> friendlyName, path |-> devicePath]

\* the port infos SerialPort.list() reports in the model; the library gives
\* every one a path
InfoUno == PortInfo(<<"A", "r", "d", "u", "i", "n", "o">>, Undefined, <<"C", "O", "M", "4">>)
InfoClone == PortInfo(<<"W", "C", "H">>, Undefined, <<"C", "O", "M", "5">>)
InfoNamed == PortInfo(Undefined, <<"U", "S", "B">>, <<"C", "O", "M", "1", "0">>)
InfoTtyUsb == PortInfo(Undefined, Undefined, <<"/", "d", "e", "v", "/", "t", "t", "y", "U", "S", "B", "0">>)
InfoBuiltin == PortInfo(Undefined, Undefined, <<"C", "O", "M", "1">>)
InfoLowerCom == PortInfo(<<"F", "T", "D", "I">>, Undefined, <<"c", "o", "m", "7">>)
InfoTtyS == PortInfo(Undefined, Undefined, <<"/", "d", "e", "v", "/", "t", "t", "y", "S", "0">>)
InfoComA == PortInfo(Undefined, Undefined, <<"C", "O", "M", "1", "A">>)
PortInfos == {InfoUno, InfoClone, InfoNamed, InfoTtyUsb, InfoBuiltin, InfoLowerCom,
              InfoTtyS, InfoComA}

\* what `await SerialPort.list()` does (line 38): it yields a list, or it throws
Listed(infos) == [ok |-> TRUE, ports |-> infos]
ListFails == [ok |-> FALSE, ports |-> <<>>]

\* Array.prototype.find, given the indices of the elements that pass the test:
\* the first of them, 0 for none
Find(passing) ==
  IF passing = {} THEN 0 ELSE CHOOSE i \in passing : \A j \in passing : i <= j

\* faulty variant: a COM* device is taken before one that looks like an Arduino
AutoDetectPortComFirst(l) ==
  IF ~l.ok THEN Com3
  ELSE LET com == Find({i \in DOMAIN l.ports : IsComName(OrEmpty(l.ports[i].path))})
           preferred == Find({i \in DOMAIN l.ports : LooksLikeArduino(Describe(l.ports[i]))})
       IN IF com # 0 THEN l.ports[com].path
          ELSE IF preferred # 0 THEN l.ports[preferred].path
          ELSE Com3

\* autoDetectPort (lines 36-53), on what SerialPort.list() comes back with
AutoDetectPort(l) ==
  IF ~l.ok THEN Com3
  ELSE LET preferred == Find({i \in DOMAIN l.ports : LooksLikeArduino(Describe(l.ports[i]))})
           com == Find({i \in DOMAIN l.ports : IsComName(OrEmpty(l.ports[i].path))})
       IN IF preferred # 0 THEN l.ports[preferred].path
          ELSE IF com # 0 THEN l.ports[com].path
          ELSE Com3

(***************************************************************************)
(* The connection state of the specification (section 4.2), read off the   *)
(* script's state: Open while the current port is open, Connecting while   *)
(* an openPort() call is pending, Faulted from the loss of the port to the *)
(* end of the 'close' handler's wait, Disconnected otherwise.              *)
(***************************************************************************)
IsOpen(p) == p # 0 /\ ports[p] = "open"

ConnState ==
  IF IsOpen(port) THEN "Open"
  ELSE IF opening > 0 THEN "Connecting"
  ELSE IF (port # 0 /\ ports[port] = "closing") \/ closeSleeps > 0 THEN "Faulted"
  ELSE "Disconnected"

Observe(s) == IF everOpened THEN connLog ELSE Append(connLog, s)

Bump(kind) == [log EXCEPT ![kind] = @ + 1]

Running == proc \in {"running", "sigint"}

\* the device selection of openPort (lines 55-57) has no part in what follows
\* it: Spec runs with the default selector and leaves the selection to DetectSpec
Init ==
  /\ MAX_POST_RETRIES \in 0..MaxRetryBudget
  /\ SERIAL_PORT = Auto
  /\ listing = Listed(<<>>)
  /\ path = <<>>
  /\ listed = 0
  /\ port = 0
  /\ parser = 0
  /\ wired = [p \in PortIds |-> 0]
  /\ ports = [p \in PortIds |-> "none"]
  /\ opening = 0
  /\ retrySleeps = 0
  /\ closeSleeps = 0
  /\ proc = "loaded"
  /\ awaited = 0
  /\ exitCode = -1
  /\ deliveries = <<>>
  /\ nLines = 0
  /\ log = [parseInvalid |-> 0, postRetry |-> 0, postFailed |-> 0]
  /\ unhandled = 0
  /\ connLog = <<"Disconnected">>
  /\ openFails = 0
  /\ retryDelays = 0
  /\ everOpened = FALSE

(***************************************************************************)
(* main (lines 175-182): calls ensureOpen, which calls openPort and        *)
(* suspends on it.                                                         *)
(***************************************************************************)
Main ==
  /\ proc = "loaded"
  /\ proc' = "running"
  /\ opening' = opening + 1
  /\ connLog' = Observe("Connecting")
  /\ UNCHANGED <<MAX_POST_RETRIES, detectVars, port, parser, wired, ports, retrySleeps, closeSleeps,
                 awaited, exitCode, pipeVars, openFails, retryDelays, everOpened>>

\* faulty variant: the catch of ensureOpen goes round the loop without sleeping
OpenFailNoSleep ==
  /\ Running
  /\ opening > 0
  /\ everOpened \/ openFails < MaxOpenFails
  /\ openFails' = IF everOpened THEN openFails ELSE openFails + 1
  /\ UNCHANGED <<MAX_POST_RETRIES, detectVars, connVars, connLog, proc, awaited, exitCode,
                 pipeVars, retryDelays, everOpened>>

\* faulty variant: the catch of ensureOpen gives up instead of sleeping and retrying
OpenFailGivesUp ==
  /\ Running
  /\ opening > 0
  /\ everOpened \/ openFails < MaxOpenFails
  /\ opening' = opening - 1
  /\ openFails' = IF everOpened THEN openFails ELSE openFails + 1
  /\ connLog' = IF opening = 1 THEN Observe("Disconnected") ELSE connLog
  /\ UNCHANGED <<MAX_POST_RETRIES, detectVars, port, parser, wired, ports, retrySleeps, closeSleeps, proc,
                 awaited, exitCode, pipeVars, retryDelays, everOpened>>

(***************************************************************************)
(* sp.open calls back with an error (lines 71-74): openPort rejects, the   *)
(* catch of ensureOpen logs and starts sleep(CONNECT_RETRY_MS) (89-91).    *)
(***************************************************************************)
OpenFail ==
  /\ Running
  /\ opening > 0
  /\ everOpened \/ openFails < MaxOpenFails
  /\ opening' = opening - 1
  /\ retrySleeps' = retrySleeps + 1
  /\ openFails' = IF everOpened THEN openFails ELSE openFails + 1
  /\ connLog' = IF opening = 1 THEN Observe("Disconnected") ELSE connLog
  /\ UNCHANGED <<MAX_POST_RETRIES, detectVars, port, parser, wired, ports, closeSleeps, proc, awaited, exitCode,
                 pipeVars, retryDelays, everOpened>>

(***************************************************************************)
(* The sleep of line 91 ends: the while loop of ensureOpen comes round and *)
(* calls openPort again.                                                   *)
(***************************************************************************)
RetryTimer ==
  /\ Running
  /\ retrySleeps > 0
  /\ retrySleeps' = retrySleeps - 1
  /\ opening' = opening + 1
  /\ retryDelays' = IF everOpened THEN retryDelays ELSE retryDelays + CONNECT_RETRY_MS
  /\ connLog' = IF opening = 0 THEN Observe("Connecting") ELSE connLog
  /\ UNCHANGED <<MAX_POST_RETRIES, detectVars, port, parser, wired, ports, closeSleeps, proc, awaited, exitCode,
                 pipeVars, openFails, everOpened>>

\* faulty variant: the handlers are wired a second time on the instance just opened
OpenSuccessWiresTwice(p) ==
  /\ Running
  /\ opening > 0
  /\ ports[p] \in {"none", "closed"}
  /\ opening' = opening - 1
  /\ ports' = [ports EXCEPT ![p] = "open"]
  /\ port' = p
  /\ parser' = p
  /\ wired' = [wired EXCEPT ![p] = 0 + 2]
  /\ connLog' = Observe("Open")
  /\ everOpened' = TRUE
  /\ UNCHANGED <<MAX_POST_RETRIES, detectVars, retrySleeps, closeSleeps, proc, awaited,
                 exitCode, pipeVars, openFails, retryDelays>>

\* faulty variant: ensureOpen does not leave its loop after a successful open
OpenSuccessKeepsLooping(p) ==
  /\ Running
  /\ opening > 0
  /\ ports[p] \in {"none", "closed"}
  /\ opening' = opening
  /\ ports' = [ports EXCEPT ![p] = "open"]
  /\ port' = p
  /\ parser' = p
  /\ wired' = [wired EXCEPT ![p] = 0 + 1]
  /\ connLog' = Observe("Open")
  /\ everOpened' = TRUE
  /\ UNCHANGED <<MAX_POST_RETRIES, detectVars, retrySleeps, closeSleeps, proc, awaited,
                 exitCode, pipeVars, openFails, retryDelays>>

(***************************************************************************)
(* sp.open calls back without error (lines 76-77): openPort resolves with  *)
(* the new instance p, ensureOpen stores it in `port`, pipes it into a new *)
(* parser, wires the three handlers on them and leaves the loop (85-88).   *)
(* An instance that is closed emits nothing more, so its id is free: the   *)
(* instance that takes it is a new object, with no handler yet.            *)
(***************************************************************************)
OpenSuccess(p) ==
  /\ Running
  /\ opening > 0
  /\ ports[p] \in {"none", "closed"}
  /\ opening' = opening - 1
  /\ ports' = [ports EXCEPT ![p] = "open"]
  /\ port' = p
  /\ parser' = p
  /\ wired' = [wired EXCEPT ![p] = 0 + 1]
  /\ connLog' = Observe("Open")
  /\ everOpened' = TRUE
  /\ UNCHANGED <<MAX_POST_RETRIES, detectVars, retrySleeps, closeSleeps, proc, awaited, exitCode, pipeVars,
                 openFails, retryDelays>>

(***************************************************************************)
(* The device goes away or a read fails: the stream closes the instance    *)
(* itself.  The 'close' event follows once the handle is released.         *)
(***************************************************************************)
Disconnect(p) ==
  /\ Running
  /\ ports[p] = "open"
  /\ ports' = [ports EXCEPT ![p] = "closing"]
  /\ UNCHANGED <<MAX_POST_RETRIES, detectVars, port, parser, wired, opening, retrySleeps, closeSleeps,
                 proc, awaited, exitCode, pipeVars, histVars>>

\* faulty variant: the 'error' handler starts a reconnect of its own as well
OnErrorReconnects(p) ==
  /\ Running
  /\ ports[p] \in {"open", "closing", "closed"}
  /\ ports' = IF IsOpen(port) THEN [ports EXCEPT ![port] = "closing"] ELSE ports
  /\ closeSleeps' = IF IsOpen(port) THEN closeSleeps + 1 ELSE closeSleeps
  /\ UNCHANGED <<MAX_POST_RETRIES, detectVars, port, parser, wired, opening, retrySleeps,
                 proc, awaited, exitCode, pipeVars, histVars>>

(***************************************************************************)
(* 'error' handler (lines 103-108), on an 'error' event of instance p: it  *)
(* closes the instance the global `port` names.  close() on an instance    *)
(* that is not open changes nothing (its failure is swallowed).            *)
(***************************************************************************)
OnError(p) ==
  /\ Running
  /\ ports[p] \in {"open", "closing", "closed"}
  /\ ports' = IF IsOpen(port) THEN [ports EXCEPT ![port] = "closing"] ELSE ports
  /\ UNCHANGED <<MAX_POST_RETRIES, detectVars, port, parser, wired, opening, retrySleeps, closeSleeps,
                 proc, awaited, exitCode, pipeVars, histVars>>

\* faulty variant: the 'close' handler gives up the deliveries that are on their way
OnCloseCancelsDeliveries(p) ==
  /\ Running
  /\ ports[p] = "closing"
  /\ ports' = [ports EXCEPT ![p] = "closed"]
  /\ closeSleeps' = closeSleeps + 1
  /\ deliveries' = [d \in DOMAIN deliveries |->
                      IF deliveries[d].pc \in {"posting", "waiting"}
                        THEN [deliveries[d] EXCEPT !.pc = "failed"]
                        ELSE deliveries[d]]
  /\ IF proc = "sigint" /\ awaited = p
       THEN proc' = "exited" /\ exitCode' = 0 /\ awaited' = 0
       ELSE UNCHANGED <<proc, awaited, exitCode>>
  /\ UNCHANGED <<MAX_POST_RETRIES, detectVars, port, parser, wired, opening, retrySleeps,
                 nLines, log, unhandled, histVars>>

(***************************************************************************)
(* Instance p finishes closing and emits 'close': its 'close' handler      *)
(* (lines 97-101) logs and starts sleep(CONNECT_RETRY_MS).  When the       *)
(* SIGINT handler awaits this close (line 162), it goes on to              *)
(* process.exit(0) (line 165).                                             *)
(***************************************************************************)
OnClose(p) ==
  /\ Running
  /\ ports[p] = "closing"
  /\ ports' = [ports EXCEPT ![p] = "closed"]
  /\ closeSleeps' = closeSleeps + 1
  /\ IF proc = "sigint" /\ awaited = p
       THEN proc' = "exited" /\ exitCode' = 0 /\ awaited' = 0
       ELSE UNCHANGED <<proc, awaited, exitCode>>
  /\ UNCHANGED <<MAX_POST_RETRIES, detectVars, port, parser, wired, opening, retrySleeps, pipeVars, histVars>>

(***************************************************************************)
(* The sleep of line 99 ends: the 'close' handler calls ensureOpen         *)
(* (line 100), which calls openPort and suspends on it.                    *)
(***************************************************************************)
CloseTimer ==
  /\ Running
  /\ closeSleeps > 0
  /\ closeSleeps' = closeSleeps - 1
  /\ opening' = opening + 1
  /\ UNCHANGED <<MAX_POST_RETRIES, detectVars, port, parser, wired, ports, retrySleeps, proc, awaited, exitCode,
                 pipeVars, histVars>>

(***************************************************************************)
(* SIGINT handler (lines 158-166): closes the current port when it is      *)
(* open and exits once it is closed; exits at once otherwise.              *)
(***************************************************************************)
Sigint ==
  /\ Running
  /\ IF IsOpen(port)
       THEN /\ ports' = [ports EXCEPT ![port] = "closing"]
            /\ proc' = "sigint"
            /\ awaited' = port
            /\ exitCode' = exitCode
       ELSE /\ ports' = ports
            /\ proc' = "exited"
            /\ awaited' = 0
            /\ exitCode' = 0
  /\ UNCHANGED <<MAX_POST_RETRIES, detectVars, port, parser, wired, opening, retrySleeps, closeSleeps,
                 pipeVars, histVars>>

(***************************************************************************)
(* 'data' handler (lines 110-135), on a line from the parser of instance   *)
(* p at time t: trim, skip an empty line, parse (log and skip on a throw), *)
(* enrich, and call postWithRetries, which issues the first axios.post     *)
(* before the handler suspends.  Every 'data' listener wired on the parser *)
(* runs on the line.  A stream that is closing can still hand over lines   *)
(* it has buffered.  The clock has moved on by one millisecond at each     *)
(* line.                                                                   *)
(***************************************************************************)
Now == nLines + 1

\* faulty variant: the retries are counted down from one budget shared by all deliveries
NewDeliverySharedBudget(line, t, payload) ==
  [line |-> line, at |-> t, data |-> Enrich(payload, t),
   retriesLeft |-> IF log.postRetry < MAX_POST_RETRIES
                     THEN MAX_POST_RETRIES - log.postRetry ELSE 0,
   pc |-> "posting", attempts |-> 1, waits |-> <<>>]

NewDelivery(line, t, payload) ==
  [line |-> line, at |-> t, data |-> Enrich(payload, t),
   retriesLeft |-> MAX_POST_RETRIES, pc |-> "posting", attempts |-> 1, waits |-> <<>>]

\* faulty variant: the record of a new line goes out ahead of the earlier ones
OnDataNewestFirst(p, line) ==
  /\ Running
  /\ ports[p] \in {"open", "closing"}
  /\ nLines < MaxLines
  /\ nLines' = nLines + 1
  /\ LET trimmed == Trim(line)
         payload == JSONParse(trimmed)
     IN IF trimmed = <<>>
          THEN UNCHANGED <<deliveries, log>>
        ELSE IF ~payload.ok
          THEN /\ log' = [log EXCEPT !.parseInvalid = @ + wired[p]]
               /\ UNCHANGED deliveries
        ELSE /\ deliveries' = [i \in 1..wired[p] |-> NewDelivery(line, Now, payload)]
                                 \o deliveries
             /\ UNCHANGED log
  /\ UNCHANGED <<MAX_POST_RETRIES, detectVars, connVars, proc, awaited, exitCode, unhandled, histVars>>

\* faulty variant: a line is taken only when no delivery is pending
OnDataAwaitsDelivery(p, line) ==
  /\ Running
  /\ ports[p] \in {"open", "closing"}
  /\ nLines < MaxLines
  /\ \A d \in DOMAIN deliveries : deliveries[d].pc \in {"ok", "failed"}
  /\ nLines' = nLines + 1
  /\ LET trimmed == Trim(line)
         payload == JSONParse(trimmed)
     IN IF trimmed = <<>>
          THEN UNCHANGED <<deliveries, log>>
        ELSE IF ~payload.ok
          THEN /\ log' = [log EXCEPT !.parseInvalid = @ + wired[p]]
               /\ UNCHANGED deliveries
        ELSE /\ deliveries' = deliveries \o
                                 [i \in 1..wired[p] |-> NewDelivery(line, Now, payload)]
             /\ UNCHANGED log
  /\ UNCHANGED <<MAX_POST_RETRIES, detectVars, connVars, proc, awaited, exitCode, unhandled, histVars>>

OnData(p, line) ==
  /\ Running
  /\ ports[p] \in {"open", "closing"}
  /\ nLines < MaxLines
  /\ nLines' = nLines + 1
  /\ LET trimmed == Trim(line)
         payload == JSONParse(trimmed)
     IN IF trimmed = <<>>
          THEN UNCHANGED <<deliveries, log>>
        ELSE IF ~payload.ok
          THEN /\ log' = [log EXCEPT !.parseInvalid = @ + wired[p]]
               /\ UNCHANGED deliveries
        ELSE /\ deliveries' = deliveries \o
                                 [i \in 1..wired[p] |-> NewDelivery(line, Now, payload)]
             /\ UNCHANGED log
  /\ UNCHANGED <<MAX_POST_RETRIES, detectVars, connVars, proc, awaited, exitCode, unhandled, histVars>>

(***************************************************************************)
(* The axios.post of delivery d settles with r (lines 139-155).            *)
(***************************************************************************)
\* it resolves (line 144): every enclosing postWithRetries call resolves, and
\* the await of the data handler (line 130) returns
Resolved(d) ==
  /\ deliveries' = [deliveries EXCEPT ![d].pc = "ok"]
  /\ UNCHANGED <<log, unhandled, connVars, proc, awaited, exitCode>>

\* it rejects with retries left (lines 146-151): log, then sleep(wait)
Rejected(d) ==
  /\ deliveries' = [deliveries EXCEPT
                      ![d].pc = "waiting",
                      ![d].waits = Append(@, BackoffWait(deliveries[d].retriesLeft))]
  /\ log' = Bump("postRetry")
  /\ UNCHANGED <<unhandled, connVars, proc, awaited, exitCode>>

\* faulty variant: a delivery that has failed for good closes the port
ExhaustedClosesPort(d) ==
  /\ deliveries' = [deliveries EXCEPT ![d].pc = "failed"]
  /\ log' = Bump("postFailed")
  /\ ports' = IF IsOpen(port) THEN [ports EXCEPT ![port] = "closing"] ELSE ports
  /\ UNCHANGED <<unhandled, port, parser, wired, opening, retrySleeps, closeSleeps, proc,
                 awaited, exitCode>>

\* it rejects with no retry left (line 154): the error is rethrown through every
\* enclosing call and caught by the data handler, which logs it (lines 132-134)
Exhausted(d) ==
  /\ deliveries' = [deliveries EXCEPT ![d].pc = "failed"]
  /\ log' = Bump("postFailed")
  /\ UNCHANGED <<unhandled, connVars, proc, awaited, exitCode>>

PostSettled(d, r) ==
  /\ Running
  /\ d \in DOMAIN deliveries
  /\ deliveries[d].pc = "posting"
  /\ IF PostResolves(r) THEN Resolved(d)
     ELSE IF deliveries[d].retriesLeft > 0 THEN Rejected(d)
     ELSE Exhausted(d)
  /\ UNCHANGED <<MAX_POST_RETRIES, detectVars, nLines, histVars>>

(***************************************************************************)
(* The sleep of line 151 ends: postWithRetries(data, retriesLeft - 1)      *)
(* (line 152) issues the next axios.post.                                  *)
(***************************************************************************)
BackoffTimer(d) ==
  /\ Running
  /\ d \in DOMAIN deliveries
  /\ deliveries[d].pc = "waiting"
  /\ deliveries' = [deliveries EXCEPT
                      ![d].pc = "posting",
                      ![d].retriesLeft = @ - 1,
                      ![d].attempts = @ + 1]
  /\ UNCHANGED <<MAX_POST_RETRIES, detectVars, connVars, proc, awaited, exitCode, nLines, log,
                 unhandled, histVars>>

Next ==
  \/ Main
  \/ OpenFail
  \/ RetryTimer
  \/ \E p \in PortIds : OpenSuccess(p)
  \/ \E p \in PortIds : Disconnect(p)
  \/ \E p \in PortIds : OnError(p)
  \/ \E p \in PortIds : OnClose(p)
  \/ CloseTimer
  \/ Sigint
  \/ \E p \in PortIds, line \in Lines : OnData(p, line)
  \/ \E d \in 1..MaxLines, r \in Responses : PostSettled(d, r)
  \/ \E d \in 1..MaxLines : BackoffTimer(d)

Spec == Init /\ [][Next]_vars

(***************************************************************************)
(* Scheduling: the event loop runs main, fires every timer that is due and *)
(* delivers every 'close' event; an open attempt that is made again and    *)
(* again succeeds in the end (the claim's proviso).  Nothing obliges the   *)
(* device to fail, a signal to arrive or a line to come.                   *)
(***************************************************************************)
Fairness ==
  /\ WF_vars(Main)
  /\ WF_vars(RetryTimer)
  /\ WF_vars(CloseTimer)
  /\ WF_vars(\E p \in PortIds : OnClose(p))
  /\ SF_vars(\E p \in PortIds : OpenSuccess(p))

LiveSpec == Spec /\ Fairness

(***************************************************************************)
(* The enrichment of lines 123-127 on its own: EnrichSpec starts with the  *)
(* port open and the handlers wired, hands the data handler lines that     *)
(* hold a record at any clock reading, and also enriches an enriched       *)
(* record once more, as for a record that comes round again.               *)
(***************************************************************************)
EnrichInit ==
  /\ MAX_POST_RETRIES = MaxRetryBudget
  /\ SERIAL_PORT = Auto
  /\ listing = Listed(<<>>)
  /\ path = <<>>
  /\ listed = 0
  /\ port = 1
  /\ parser = 1
  /\ wired = [p \in PortIds |-> IF p = 1 THEN 1 ELSE 0]
  /\ ports = [p \in PortIds |-> IF p = 1 THEN "open" ELSE "none"]
  /\ opening = 0
  /\ retrySleeps = 0
  /\ closeSleeps = 0
  /\ proc = "running"
  /\ awaited = 0
  /\ exitCode = -1
  /\ deliveries = <<>>
  /\ nLines = 0
  /\ log = [parseInvalid |-> 0, postRetry |-> 0, postFailed |-> 0]
  /\ unhandled = 0
  /\ connLog = <<"Disconnected", "Connecting", "Open">>
  /\ openFails = 0
  /\ retryDelays = 0
  /\ everOpened = TRUE

\* an object taken as the payload of the data handler
AsPayload(object) == [ok |-> TRUE, kind |-> "object", value |-> object, scalar |-> ""]

\* the data handler on a line that holds a record, the clock reading t
EnrichLine(line, t) ==
  /\ Len(deliveries) < MaxLines
  /\ nLines' = nLines + 1
  /\ deliveries' = Append(deliveries, NewDelivery(line, t, JSONParse(Trim(line))))
  /\ UNCHANGED <<MAX_POST_RETRIES, detectVars, connVars, proc, awaited, exitCode, log,
                 unhandled, histVars>>

\* the enriched record of delivery d is enriched again, the clock reading t
EnrichAgain(d, t) ==
  /\ d \in DOMAIN deliveries
  /\ Len(deliveries) < MaxLines
  /\ deliveries' = Append(deliveries,
                          NewDelivery(deliveries[d].line, t, AsPayload(deliveries[d].data)))
  /\ UNCHANGED <<MAX_POST_RETRIES, detectVars, connVars, proc, awaited, exitCode, nLines, log,
                 unhandled, histVars>>

EnrichNext ==
  \/ \E line \in RecordLines, t \in Clock : EnrichLine(line, t)
  \/ \E d \in 1..MaxLines, t \in Clock : EnrichAgain(d, t)

EnrichSpec == EnrichInit /\ [][EnrichNext]_vars

(***************************************************************************)
(* The path selection of openPort (line 56) on its own: DetectSpec starts  *)
(* with any selector and any outcome of SerialPort.list() and makes the    *)
(* selection once.                                                         *)
(***************************************************************************)
Com9 == <<"C", "O", "M", "9">>
TtyAcm0 == <<"/", "d", "e", "v", "/", "t", "t", "y", "A", "C", "M", "0">>
Selectors == {Auto, Com9, TtyAcm0}
Listings ==
  {ListFails} \cup {Listed(infos) : infos \in UNION {[1..n -> PortInfos] : n \in 0..MaxListing}}

DetectInit ==
  /\ MAX_POST_RETRIES = MaxRetryBudget
  /\ SERIAL_PORT \in Selectors
  /\ listing \in Listings
  /\ path = <<>>
  /\ listed = 0
  /\ port = 0
  /\ parser = 0
  /\ wired = [p \in PortIds |-> 0]
  /\ ports = [p \in PortIds |-> "none"]
  /\ opening = 0
  /\ retrySleeps = 0
  /\ closeSleeps = 0
  /\ proc = "loaded"
  /\ awaited = 0
  /\ exitCode = -1
  /\ deliveries = <<>>
  /\ nLines = 0
  /\ log = [parseInvalid |-> 0, postRetry |-> 0, postFailed |-> 0]
  /\ unhandled = 0
  /\ connLog = <<"Disconnected">>
  /\ openFails = 0
  /\ retryDelays = 0
  /\ everOpened = FALSE

\* line 56: autoDetectPort is called, and with it SerialPort.list(), only when
\* the selector is "auto"
OpenPortPath ==
  /\ path = <<>>
  /\ IF SERIAL_PORT = Auto
       THEN path' = AutoDetectPort(listing) /\ listed' = listed + 1
       ELSE path' = SERIAL_PORT /\ listed' = listed
  /\ UNCHANGED <<MAX_POST_RETRIES, SERIAL_PORT, listing, connVars, proc, awaited, exitCode,
                 pipeVars, histVars>>

DetectNext == OpenPortPath

DetectSpec == DetectInit /\ [][DetectNext]_vars

(***************************************************************************)
(* Properties.                                                             *)
(***************************************************************************)
Failed == {d \in DOMAIN deliveries : deliveries[d].pc = "failed"}
LinearWaits(n) == [k \in 1..n |-> POST_TIMEOUT_MS * k]

(***************************************************************************)
(* C1: a delivery whose every POST has failed so far has made at most      *)
(* MAX_POST_RETRIES + 1 attempts, has waited POST_TIMEOUT_MS * k before    *)
(* its k-th retry, and once it has failed for good it has made exactly     *)
(* MAX_POST_RETRIES + 1 attempts and MAX_POST_RETRIES waits, its failure   *)
(* is logged, and no rejection has escaped the data handler.               *)
(***************************************************************************)
C1_RetrySchedule ==
  /\ unhandled = 0
  /\ log.postFailed = Cardinality(Failed)
  /\ \A d \in DOMAIN deliveries :
       LET x == deliveries[d]
       IN x.pc # "ok" =>
            /\ x.attempts <= MAX_POST_RETRIES + 1
            /\ x.waits = LinearWaits(Len(x.waits))
            /\ Len(x.waits) = IF x.pc = "waiting" THEN x.attempts ELSE x.attempts - 1
            /\ x.pc = "failed" => x.attempts = MAX_POST_RETRIES + 1

C1_Witness ==
  \E d \in DOMAIN deliveries :
    /\ MAX_POST_RETRIES = 3
    /\ deliveries[d].pc = "failed"
    /\ deliveries[d].attempts = 4
    /\ deliveries[d].waits = <<5000, 10000, 15000>>
    /\ log.postFailed = 1

RECURSIVE Rounds(_)
Rounds(n) ==
  IF n = 0 THEN <<"Disconnected", "Connecting">>
  ELSE Rounds(n - 1) \o <<"Disconnected", "Connecting">>

(***************************************************************************)
(* C2: from startup to the first successful open after N failed attempts   *)
(* the connection states observed are Disconnected, Connecting, then N     *)
(* times Disconnected, Connecting, then Open; N reconnect delays of        *)
(* CONNECT_RETRY_MS have elapsed, one after each failed attempt; and no    *)
(* line is handled before that open.                                       *)
(***************************************************************************)
C2_StartupSequence ==
  /\ everOpened =>
       /\ connLog = Rounds(openFails) \o <<"Open">>
       /\ retryDelays = openFails * CONNECT_RETRY_MS
  /\ ~everOpened =>
       /\ nLines = 0 /\ deliveries = <<>>
       /\ ConnState \in {"Disconnected", "Connecting"}
       /\ proc = "loaded" => connLog = <<"Disconnected">>
       /\ opening > 0 =>
            /\ connLog = Rounds(openFails)
            /\ retryDelays = openFails * CONNECT_RETRY_MS
       /\ retrySleeps > 0 =>
            /\ connLog = Rounds(openFails - 1) \o <<"Disconnected">>
            /\ retryDelays = (openFails - 1) * CONNECT_RETRY_MS

C2_Witness ==
  /\ everOpened
  /\ openFails = 2
  /\ retryDelays = 6000
  /\ connLog = <<"Disconnected", "Connecting", "Disconnected", "Connecting",
                 "Disconnected", "Connecting", "Open">>
  /\ nLines = 1

Held == {p \in PortIds : ports[p] \in {"open", "closing"}}

(***************************************************************************)
(* C3: at most one port instance holds the device (is open or still        *)
(* closing), an open instance is the one `port` names, and no open         *)
(* attempt is pending while an instance holds the device.                  *)
(***************************************************************************)
C3_OneOpenPort ==
  /\ Cardinality(Held) <= 1
  /\ \A p \in PortIds : ports[p] = "open" => port = p
  /\ opening > 0 => Held = {}

C3_Witness ==
  /\ port = 2
  /\ ports[2] = "open"
  /\ ports[1] = "closed"

ReconnectUnderWay ==
  \/ port # 0 /\ ports[port] = "closing"
  \/ closeSleeps + retrySleeps + opening > 0

(***************************************************************************)
(* C4: while the process runs and the port is not open, a reconnect is     *)
(* under way (the port is closing, a reconnect delay is running or an open *)
(* attempt is pending); a new open attempt starts only when a reconnect    *)
(* delay ends; and, open attempts succeeding in the end, the port is open  *)
(* again later unless the process exits.                                   *)
(***************************************************************************)
C4_ReconnectsForever ==
  /\ [](Running /\ ConnState # "Open" => ReconnectUnderWay)
  /\ [][opening' > opening /\ proc # "loaded" =>
          closeSleeps' < closeSleeps \/ retrySleeps' < retrySleeps]_vars
  /\ (Running /\ ConnState # "Open") ~> (ConnState = "Open" \/ proc = "exited")

C4_Witness ==
  /\ proc = "running"
  /\ port = 1
  /\ ports[1] = "open"
  /\ ports[2] = "closed"

\* a line's text holds a structured (map-like) value
IsStructured(text) == JSONParse(text).ok /\ JSONParse(text).kind = "object"
Is2xx(r) == r.code = "" /\ r.status \in 200..299
Reserved == {"_ingested_at", "_source"}

(***************************************************************************)
(* C5: when the data handler is given a line that is not empty after       *)
(* trimming and does not parse as a structured value, it writes one        *)
(* decode-error log entry, starts no delivery and leaves the connection    *)
(* as it is.                                                               *)
(***************************************************************************)
C5_UnstructuredLineSkipped ==
  [][\A p \in PortIds, line \in Lines :
       OnData(p, line) /\ Trim(line) # <<>> /\ ~IsStructured(Trim(line)) =>
         /\ log'.parseInvalid = log.parseInvalid + 1
         /\ deliveries' = deliveries
         /\ UNCHANGED connVars]_vars

(***************************************************************************)
(* C6: a structured line handed over by an open port starts one delivery   *)
(* whose first POST carries the line's fields and the two reserved fields  *)
(* (_ingested_at the time of the hand-over, _source "arduino-serial");     *)
(* when that first POST gets a 2xx response the delivery is over with one  *)
(* POST, no wait and no retry logged, and it never posts again.            *)
(***************************************************************************)
C6_AcceptedFirstPost ==
  [][/\ \A p \in PortIds, line \in Lines :
          OnData(p, line) /\ ports[p] = "open" /\ IsStructured(Trim(line)) =>
            /\ Len(deliveries') = Len(deliveries) + 1
            /\ LET x == deliveries'[Len(deliveries')]
                   fields == JSONParse(Trim(line)).value
               IN /\ x.pc = "posting" /\ x.attempts = 1 /\ x.waits = <<>>
                  /\ DOMAIN x.data = DOMAIN fields \cup Reserved
                  /\ \A k \in DOMAIN fields \ Reserved : x.data[k] = fields[k]
                  /\ x.data["_ingested_at"] = Str(ISOString(nLines + 1))
                  /\ x.data["_source"] = Str("arduino-serial")
     /\ \A d \in DOMAIN deliveries, r \in Responses :
          PostSettled(d, r) /\ deliveries[d].attempts = 1 /\ Is2xx(r) =>
            /\ deliveries'[d] = [deliveries[d] EXCEPT !.pc = "ok"]
            /\ deliveries'[d].waits = <<>>
            /\ log' = log
     /\ \A d \in DOMAIN deliveries :
          deliveries[d].pc = "ok" => deliveries'[d] = deliveries[d]]_vars

C6_Witness ==
  \E d \in DOMAIN deliveries :
    /\ deliveries[d].line = LineTemp
    /\ deliveries[d].pc = "ok"
    /\ deliveries[d].attempts = 1
    /\ deliveries[d].waits = <<>>
    /\ deliveries[d].data = ("temp" :> Num("21.5")
                             @@ "_ingested_at" :> Str("1970-01-01T00:00:00.001Z")
                             @@ "_source" :> Str("arduino-serial"))
    /\ log.postRetry = 0

(***************************************************************************)
(* C7: an open port can hand over the next line whatever the state of the  *)
(* earlier deliveries, and the handler then issues that line's first POST  *)
(* in the same step and leaves the earlier deliveries as they are.         *)
(***************************************************************************)
C7_NoWaitForDelivery ==
  /\ [](\A p \in PortIds :
          Running /\ ports[p] = "open" /\ nLines < MaxLines =>
            \A line \in Lines : ENABLED OnData(p, line))
  /\ [][\A p \in PortIds, line \in Lines :
          OnData(p, line) /\ Trim(line) # <<>> /\ JSONParse(Trim(line)).ok =>
            /\ Len(deliveries') = Len(deliveries) + 1
            /\ deliveries'[Len(deliveries')].pc = "posting"
            /\ deliveries'[Len(deliveries')].attempts = 1
            /\ \A d \in DOMAIN deliveries : deliveries'[d] = deliveries[d]]_vars

C7_Witness ==
  /\ Len(deliveries) = 2
  /\ deliveries[1].pc = "waiting"
  /\ deliveries[2].pc = "posting"
  /\ deliveries[2].attempts = 1

(***************************************************************************)
(* C8: a step of a delivery (its POST settling, its backoff ending)        *)
(* changes neither the connection (port, parser, port instances, pending   *)
(* reconnects) nor the process state nor the count of lines taken.         *)
(***************************************************************************)
C8_DeliveryLeavesConnection ==
  [][Len(deliveries') = Len(deliveries) /\ deliveries' # deliveries =>
       UNCHANGED <<connVars, proc, awaited, exitCode, nLines>>]_vars

C8_Witness ==
  /\ Failed # {}
  /\ proc = "running"
  /\ IsOpen(port)
  /\ everOpened /\ ports = [p \in PortIds |-> IF p = 1 THEN "open" ELSE "none"]

(***************************************************************************)
(* C9: every delivery has its own budget (attempts made plus retries left  *)
(* is MAX_POST_RETRIES + 1, starting from one attempt) and its own backoff *)
(* sequence; a step of one delivery leaves all others as they are; a       *)
(* delivery that has failed never changes again; its failure is logged,    *)
(* reaches no unhandled-rejection hook and leaves the process running.     *)
(***************************************************************************)
C9_BudgetPerRecord ==
  /\ [](/\ unhandled = 0
        /\ log.postFailed = Cardinality(Failed)
        /\ \A d \in DOMAIN deliveries :
             LET x == deliveries[d]
             IN /\ x.attempts + x.retriesLeft = MAX_POST_RETRIES + 1
                /\ x.waits = LinearWaits(Len(x.waits))
                /\ x.pc = "failed" => x.retriesLeft = 0 /\ Len(x.waits) = MAX_POST_RETRIES)
  /\ [][/\ Len(deliveries') >= Len(deliveries)
        /\ Len(deliveries') > Len(deliveries) =>
             /\ deliveries'[Len(deliveries')].attempts = 1
             /\ deliveries'[Len(deliveries')].retriesLeft = MAX_POST_RETRIES
        /\ \A d \in DOMAIN deliveries :
             /\ deliveries[d].pc = "failed" => deliveries'[d] = deliveries[d]
             /\ deliveries'[d] # deliveries[d] =>
                  \A e \in DOMAIN deliveries \ {d} : deliveries'[e] = deliveries[e]
             /\ deliveries'[d].pc = "failed" /\ deliveries[d].pc # "failed" =>
                  proc' = proc /\ exitCode' = exitCode]_vars

C9_Witness ==
  /\ MAX_POST_RETRIES = 3
  /\ Len(deliveries) = 2
  /\ deliveries[1].pc = "failed" /\ deliveries[1].attempts = 4
  /\ deliveries[2].pc = "failed" /\ deliveries[2].attempts = 4
  /\ Running

(***************************************************************************)
(* C10: when a POST settles, the delivery is over successfully exactly     *)
(* when the outcome is a response with status 200..299; on any other       *)
(* status or a transport error or timeout it waits for a retry while       *)
(* retries are left and fails otherwise; a wait ends in the next POST; and *)
(* a delivery that has succeeded never posts again.                        *)
(***************************************************************************)
C10_Only2xxSucceeds ==
  [][/\ \A d \in DOMAIN deliveries, r \in Responses :
          PostSettled(d, r) =>
            LET x == deliveries[d]
                y == deliveries'[d]
            IN IF Is2xx(r) THEN y.pc = "ok" /\ y.attempts = x.attempts
               ELSE IF x.retriesLeft > 0
                 THEN y.pc = "waiting" /\ Len(y.waits) = Len(x.waits) + 1
               ELSE y.pc = "failed"
     /\ \A d \in DOMAIN deliveries :
          LET x == deliveries[d]
              y == deliveries'[d]
          IN /\ x.pc = "waiting" /\ y # x =>
                  y.pc = "posting" /\ y.attempts = x.attempts + 1
                  /\ y.retriesLeft = x.retriesLeft - 1
             /\ x.pc = "ok" => y = x]_vars

C10_Witness ==
  \E d \in DOMAIN deliveries :
    /\ deliveries[d].pc = "ok"
    /\ deliveries[d].attempts = 2
    /\ deliveries[d].waits = <<5000>>
    /\ log.postRetry = 1

(***************************************************************************)
(* C11: a line is decoded, enriched or submitted only when the instance it *)
(* comes from is open and is the current port, that is, only in connection *)
(* state Open; a line from an instance that has left Open is not           *)
(* processed.                                                              *)
(***************************************************************************)
C11_LinesOnlyWhileOpen ==
  [][\A p \in PortIds, line \in Lines :
       OnData(p, line) /\ Trim(line) # <<>> =>
         /\ ports[p] = "open"
         /\ port = p
         /\ ConnState = "Open"]_vars

(***************************************************************************)
(* C12: the SIGINT handler closes the current port when it is open and     *)
(* closes nothing otherwise; the process then exits, with code 0; from the *)
(* signal on no line is taken; and once the process has exited no          *)
(* reconnect wait ends and no open attempt is made or completes.           *)
(***************************************************************************)
C12_TerminationHook ==
  /\ [][Sigint =>
          IF IsOpen(port)
            THEN ports' = [ports EXCEPT ![port] = "closing"] /\ proc' = "sigint"
            ELSE ports' = ports /\ proc' = "exited" /\ exitCode' = 0]_vars
  /\ [](proc = "exited" <=> exitCode = 0)
  /\ (proc = "sigint") ~> (proc = "exited")
  /\ [][proc # "running" /\ proc # "loaded" =>
          /\ Len(deliveries') = Len(deliveries)
          /\ nLines' = nLines]_vars
  /\ [](proc = "exited" =>
          /\ ~ENABLED CloseTimer
          /\ ~ENABLED RetryTimer
          /\ ~ENABLED OpenFail
          /\ \A p \in PortIds : ~ENABLED OpenSuccess(p))

(***************************************************************************)
(* C13: the deliveries stand in the order their lines arrived; the handler *)
(* takes one line at a time and issues its first POST in the same step,    *)
(* behind every delivery started before and leaving those as they are.     *)
(* The order of completion is free: C13_Witness is a state in which the    *)
(* later of two records is delivered while the earlier one is still on its *)
(* way.                                                                    *)
(***************************************************************************)
C13_ArrivalOrder ==
  /\ [](\A d, e \in DOMAIN deliveries :
          d < e => deliveries[d].at < deliveries[e].at)
  /\ [][\A p \in PortIds, line \in Lines :
          OnData(p, line) =>
            /\ nLines' = nLines + 1
            /\ SubSeq(deliveries', 1, Len(deliveries)) = deliveries
            /\ \A d \in DOMAIN deliveries' \ DOMAIN deliveries :
                 /\ deliveries'[d].at = nLines'
                 /\ deliveries'[d].line = line
                 /\ deliveries'[d].pc = "posting"
                 /\ deliveries'[d].attempts = 1]_vars

C13_Witness ==
  /\ Len(deliveries) = 2
  /\ deliveries[1].at < deliveries[2].at
  /\ deliveries[1].pc \in {"posting", "waiting"}
  /\ deliveries[2].pc = "ok"

\* the record a line holds
RecordOf(line) == JSONParse(Trim(line)).value

\* out holds the fields of record and the two system fields of clock reading t
Stamped(out, record, t) ==
  /\ DOMAIN out = DOMAIN record \cup Reserved
  /\ Cardinality(DOMAIN out) = Cardinality(DOMAIN record \ Reserved) + 2
  /\ \A k \in DOMAIN record \ Reserved : out[k] = record[k]
  /\ out["_ingested_at"] = Str(ISOString(t))
  /\ out["_source"] = Str("arduino-serial")

(***************************************************************************)
(* C14: the record built from a structured record at clock reading t holds *)
(* every field of the input, and besides them just _ingested_at, the ISO   *)
(* form of t, and _source, "arduino-serial"; the input, be it the record   *)
(* of a line or a record enriched before, is left as it was.               *)
(***************************************************************************)
C14_EnrichAddsTwoFields ==
  [][/\ \A line \in RecordLines, t \in Clock :
          EnrichLine(line, t) =>
            /\ JSONParse(Trim(line)).kind = "object"
            /\ Stamped(deliveries'[Len(deliveries')].data, RecordOf(line), t)
            /\ \A d \in DOMAIN deliveries : deliveries'[d] = deliveries[d]
     /\ \A d \in DOMAIN deliveries, t \in Clock :
          EnrichAgain(d, t) =>
            /\ Stamped(deliveries'[Len(deliveries')].data, deliveries[d].data, t)
            /\ deliveries'[d].data = deliveries[d].data]_vars

C14_Witness ==
  \E d \in DOMAIN deliveries :
    /\ deliveries[d].line = LineTwo
    /\ deliveries[d].at = 3
    /\ deliveries[d].data = ("temp" :> Num("21.5") @@ "hum" :> Num("40")
                             @@ "_ingested_at" :> Str("1970-01-01T00:00:00.003Z")
                             @@ "_source" :> Str("arduino-serial"))

(***************************************************************************)
(* C15: enriching an enriched record at t2 gives what enriching the        *)
(* original record at t2 gives, whatever the first clock reading was; and  *)
(* every enriched record, also that of a record that came with fields      *)
(* named _ingested_at or _source, has each of the two once, with the       *)
(* system's value.                                                         *)
(***************************************************************************)
C15_EnrichOverwrites ==
  /\ [][\A d \in DOMAIN deliveries, t2 \in Clock :
          EnrichAgain(d, t2) =>
            LET r == RecordOf(deliveries[d].line)
                t1 == deliveries[d].at
                twice == deliveries'[Len(deliveries')].data
            IN /\ deliveries[d].data = Enrich(AsPayload(r), t1)
               /\ twice = Enrich(AsPayload(r), t2)
               /\ twice = Enrich(AsPayload(Enrich(AsPayload(r), t1)), t2)]_vars
  /\ [](\A d \in DOMAIN deliveries :
          LET r == RecordOf(deliveries[d].line)
              out == deliveries[d].data
          IN /\ Cardinality({k \in DOMAIN out : k = "_ingested_at"}) = 1
             /\ Cardinality({k \in DOMAIN out : k = "_source"}) = 1
             /\ out["_ingested_at"] = Str(ISOString(deliveries[d].at))
             /\ out["_source"] = Str("arduino-serial")
             /\ DOMAIN out \ Reserved = DOMAIN r \ Reserved)

C15_Witness ==
  /\ Len(deliveries) = 2
  /\ nLines = 1
  /\ deliveries[1].line = LineOwnBoth /\ deliveries[1].at = 1
  /\ deliveries[2].line = LineOwnBoth /\ deliveries[2].at = 2
  /\ deliveries[2].data = ("temp" :> Num("21.5")
                           @@ "_ingested_at" :> Str("1970-01-01T00:00:00.002Z")
                           @@ "_source" :> Str("arduino-serial"))

(***************************************************************************)
(* C16: the path selection of openPort always comes to an end with a       *)
(* path.  With the selector "auto" it has enumerated the devices once and  *)
(* the path is "COM3" when the enumeration failed or reported nothing,     *)
(* else that of a device whose description matches the Arduino pattern     *)
(* when there is one, else that of a device named COM<digits> when there   *)
(* is one, else "COM3".  With any other selector the path is the selector  *)
(* and nothing has been enumerated.                                        *)
(***************************************************************************)
C16_Discovery ==
  /\ path = <<>> => ENABLED OpenPortPath
  /\ path # <<>> =>
       /\ path # Undefined
       /\ SERIAL_PORT # Auto => path = SERIAL_PORT /\ listed = 0
       /\ SERIAL_PORT = Auto =>
            /\ listed = 1
            /\ LET infos == listing.ports
                   preferred == {i \in DOMAIN infos : LooksLikeArduino(Describe(infos[i]))}
                   coms == {i \in DOMAIN infos : IsComName(infos[i].path)}
               IN IF ~listing.ok \/ infos = <<>> THEN path = Com3
                  ELSE IF preferred # {} THEN \E i \in preferred : path = infos[i].path
                  ELSE IF coms # {} THEN \E i \in coms : path = infos[i].path
                  ELSE path = Com3

C16_Witness ==
  /\ SERIAL_PORT = Auto
  /\ listing = Listed(<<InfoBuiltin, InfoClone>>)
  /\ listed = 1
  /\ path = <<"C", "O", "M", "5">>

InFlight == {d \in DOMAIN deliveries : deliveries[d].pc \in {"posting", "waiting"}}

\* what the settling of its POST with r makes of delivery x, by x and r alone
Settle(x, r) ==
  IF Is2xx(r) THEN [x EXCEPT !.pc = "ok"]
  ELSE IF x.retriesLeft > 0
    THEN [x EXCEPT !.pc = "waiting", !.waits = Append(@, POST_TIMEOUT_MS * x.attempts)]
  ELSE [x EXCEPT !.pc = "failed"]

(***************************************************************************)
(* C17: a step that changes the connection (a port opening, failing,       *)
(* erroring or closing, a reconnect wait or open attempt starting or       *)
(* ending) changes no delivery; while the process runs, whatever the       *)
(* connection state, a POST on its way can settle with any outcome and a   *)
(* backoff wait can end, and what the step makes of the delivery depends   *)
(* on the delivery and the outcome alone; once the process has exited no   *)
(* delivery moves.                                                         *)
(***************************************************************************)
C17_DeliveriesOutliveConnection ==
  /\ [][connVars' # connVars => deliveries' = deliveries]_vars
  /\ [](Running =>
          \A d \in DOMAIN deliveries :
            /\ deliveries[d].pc = "posting" =>
                 \A r \in Responses : ENABLED PostSettled(d, r)
            /\ deliveries[d].pc = "waiting" => ENABLED BackoffTimer(d))
  /\ [][\A d \in DOMAIN deliveries :
          /\ \A r \in Responses :
               PostSettled(d, r) => deliveries'[d] = Settle(deliveries[d], r)
          /\ BackoffTimer(d) =>
               deliveries'[d] = [deliveries[d] EXCEPT !.pc = "posting",
                                                      !.attempts = @ + 1,
                                                      !.retriesLeft = @ - 1]]_vars
  /\ [](proc = "exited" =>
          \A d \in DOMAIN deliveries :
            /\ ~ENABLED BackoffTimer(d)
            /\ \A r \in Responses : ~ENABLED PostSettled(d, r))

C17_Witness ==
  /\ Running
  /\ ports = [p \in PortIds |-> IF p = 1 THEN "closed" ELSE "none"]
  /\ closeSleeps = 1
  /\ \E d \in InFlight : deliveries[d].pc = "posting" /\ deliveries[d].attempts = 2

(***************************************************************************)
(* C18: when the 'error' handler runs on an 'error' event of instance p,   *)
(* no instance other than p is closed by it; an 'error' event of an        *)
(* instance that has been replaced leaves the open port open.              *)
(***************************************************************************)
C18_ErrorClosesEmitter ==
  [][\A p \in PortIds :
       OnError(p) => \A q \in PortIds \ {p} : ports'[q] = ports[q]]_vars

\* reconnect activities: 'close' handlers in their wait, ensureOpen loops in
\* their wait, ensureOpen loops in an open attempt
ReconnectActivities == closeSleeps + retrySleeps + opening

(***************************************************************************)
(* C19: at most one reconnect activity exists (a 'close' handler waiting   *)
(* to reconnect, or an ensureOpen loop in its retry wait or in an open     *)
(* attempt), and none while a port instance is open.                       *)
(***************************************************************************)
C19_OneReconnectLoop ==
  /\ ReconnectActivities <= 1
  /\ (\E p \in PortIds : ports[p] = "open") => ReconnectActivities = 0

C19_Witness ==
  /\ everOpened
  /\ port = 1
  /\ ports[1] = "closed"
  /\ retrySleeps = 1
  /\ ReconnectActivities = 1

(***************************************************************************)
(* C20: every instance that has been opened has had the handlers wired on  *)
(* it once, at its opening, and no other step wires any; a line handed     *)
(* over starts at most one delivery, so there are never more deliveries    *)
(* than lines; and a line that is empty after trimming starts none and     *)
(* logs nothing.                                                           *)
(***************************************************************************)
C20_OneDeliveryPerLine ==
  /\ [](\A p \in PortIds : wired[p] = IF ports[p] = "none" THEN 0 ELSE 1)
  /\ [][\A p \in PortIds :
          wired'[p] # wired[p] => ports[p] # "open" /\ ports'[p] = "open" /\ port' = p]_vars
  /\ [](Len(deliveries) <= nLines)
  /\ [][\A p \in PortIds, line \in Lines :
          OnData(p, line) =>
            /\ nLines' = nLines + 1
            /\ Len(deliveries') <= Len(deliveries) + 1
            /\ Trim(line) = <<>> => deliveries' = deliveries /\ log' = log]_vars

C20_Witness ==
  /\ ports = <<"closed", "open">>
  /\ wired = <<1, 1>>
  /\ nLines = 2
  /\ Len(deliveries) = 1
  /\ deliveries[1].line = LineTemp
  /\ log = [parseInvalid |-> 0, postRetry |-> 0, postFailed |-> 0]
============================================================================
